---- MODULE Spec2Model ----
(***************************************************************************)
(* The request pipeline of the image proxy (src/main.rs): generate and     *)
(* retrieve_image running as concurrent tasks over one shared              *)
(* Arc<Mutex<LruCache<u64, Bytes>>>.                                       *)
(*                                                                         *)
(* A task yields only at its await points: cache.lock() (line 86),         *)
(* reqwest::get (line 94) and resp.bytes() (line 95).  Each action below   *)
(* is the code a task runs between two of them.                            *)
(***************************************************************************)
EXTENDS Integers, Sequences, FiniteSets, TLC

\* ------------------------------------------------------------- bounds
\* Number of concurrently served requests (tasks spawned by axum::serve).
NReq == 2
\* Total number of requests accepted in a run.
MaxRequests == 3
\* Total number of requests accepted in a run that serves one at a time.
MaxSerial == 4
\* Total number of requests accepted in a run under the fair scheduler.
MaxLive == 2
\* Capacity the cache is built with; main uses 1024.
Capacity == 2
\* Size of the fingerprint space; DefaultHasher::finish yields a u64.
HashSpace == 3

Reqs == 1..NReq

\* ------------------------------------------------------------- inputs
\* URL path segments, as byte strings (ASCII codes).
\* "a", "%61", "b", "c", "d"
Segments == { <<97>>, <<37, 54, 49>>, <<98>>, <<99>>, <<100>> }

\* Spec tokens: a sequence of sub-tokens, each a tag followed by its fields.
TokUnknownTag == << <<"zz">> >>
TokResize     == << <<"r", 5, 8>> >>
TokDegenerate == << <<"r", 0, 8>>, <<"w", 2, 2>> >>
Tokens == { TokUnknownTag, TokResize, TokDegenerate }

\* Bodies an upstream server may send.
Bodies == { "png", "txt" }
\* HTTP statuses an upstream server may answer with.
UpstreamStatuses == { 200, 404 }

NoData == "none"

\* ------------------------------------------------------------- percent decoding
\* Value of an ASCII hex digit, -1 when the byte is no hex digit.
HexVal(b) ==
    IF b >= 48 /\ b <= 57 THEN b - 48
    ELSE IF b >= 65 /\ b <= 70 THEN b - 55
    ELSE IF b >= 97 /\ b <= 102 THEN b - 87
    ELSE -1

RECURSIVE PercentDecodeBytes(_)
\* percent_decode_str: "%XY" with two hex digits becomes one byte, every other
\* byte is copied.
PercentDecodeBytes(s) ==
    IF s = <<>> THEN <<>>
    ELSE IF /\ Head(s) = 37
            /\ Len(s) >= 3
            /\ HexVal(s[2]) >= 0
            /\ HexVal(s[3]) >= 0
         THEN <<16 * HexVal(s[2]) + HexVal(s[3])>> \o PercentDecodeBytes(SubSeq(s, 4, Len(s)))
         ELSE <<Head(s)>> \o PercentDecodeBytes(Tail(s))

\* decode_utf8_lossy on byte strings whose bytes >= 0x80 are isolated: each is
\* invalid UTF-8 and is replaced by U+FFFD.
Utf8Lossy(bs) == [i \in 1..Len(bs) |-> IF bs[i] >= 128 THEN 65533 ELSE bs[i]]

PercentDecode(seg) == Utf8Lossy(PercentDecodeBytes(seg))

Urls == { PercentDecode(s) : s \in Segments }

\* ------------------------------------------------------------- fingerprint
RECURSIVE HashFrom(_, _)
HashFrom(h, s) ==
    IF s = <<>> THEN h ELSE HashFrom((31 * h + Head(s)) % HashSpace, Tail(s))

\* url.hash(&mut hasher); hasher.finish(): a deterministic function of the
\* string into a finite space, hence not injective.
Fingerprint(u) == HashFrom(0, u)

\* ------------------------------------------------------------- spec codec (mod pb)
\* One sub-token decodes to one operation when its tag is known and it
\* carries exactly the tag's fields.
SubTokenOk(t) ==
    \/ Len(t) = 3 /\ t[1] = "r"
    \/ Len(t) = 3 /\ t[1] = "w"
    \/ Len(t) = 2 /\ t[1] = "f"

DecodeOp(t) ==
    IF t[1] = "r" THEN [kind |-> "Resize", a |-> t[2], b |-> t[3]]
    ELSE IF t[1] = "w" THEN [kind |-> "Watermark", a |-> t[2], b |-> t[3]]
    ELSE [kind |-> "ColorFilter", a |-> t[2], b |-> 0]

\* ImageSpec::try_from(&str): strict, all sub-tokens or nothing.
SpecValid(tok) == \A i \in 1..Len(tok) : SubTokenOk(tok[i])

DecodeSpec(tok) == [i \in 1..Len(tok) |-> DecodeOp(tok[i])]

\* ------------------------------------------------------------- engine (mod engine)
\* Photon::try_from(Bytes): only image bytes decode.
IsImage(bytes) == bytes = "png"

PhotonDecode(bytes) == [src |-> bytes, applied |-> <<>>]

\* An operation fails on degenerate target dimensions.
OpFails(op) == op.kind = "Resize" /\ (op.a = 0 \/ op.b = 0)

RECURSIVE ApplyFrom(_, _)
\* Engine::apply: the operations in order, each on the output of the one
\* before; the fold stops at the first operation that fails.
ApplyFrom(img, ops) ==
    IF ops = <<>> THEN img
    ELSE IF OpFails(Head(ops)) THEN img
    ELSE ApplyFrom([img EXCEPT !.applied = Append(@, Head(ops))], Tail(ops))

SomeOpFails(ops) == \E i \in 1..Len(ops) : OpFails(ops[i])

\* Engine::generate(ImageFormat::Png)
Encode(img) == <<"png", img.src, img.applied>>

\* ------------------------------------------------------------- LruCache<u64, Bytes>
\* The cache is the list of its entries, most recently used first.
CacheKeys(c) == { c[i].k : i \in 1..Len(c) }

Contains(c, key) == key \in CacheKeys(c)

IndexOf(c, key) == CHOOSE i \in 1..Len(c) : c[i].k = key

ValueOf(c, key) == c[IndexOf(c, key)].v

Without(c, i) == SubSeq(c, 1, i - 1) \o SubSeq(c, i + 1, Len(c))

\* Faulty variant: a get that leaves the order alone, as LruCache::peek does.
LruGetPeek(c, key) == c

\* LruCache::get, the cache it leaves: a hit moves the entry to the front.
LruGet(c, key) ==
    IF Contains(c, key)
    THEN <<c[IndexOf(c, key)]>> \o Without(c, IndexOf(c, key))
    ELSE c

\* Faulty variant: a lookup that never finds anything.
LruFindNever(c, key) == NoData

\* LruCache::get, the value it returns: Some(v) on a hit, None on a miss.
LruFind(c, key) == IF Contains(c, key) THEN ValueOf(c, key) ELSE NoData

\* Faulty variant: a put that never removes an entry.
LruPutNoEvict(c, capacity, key, val) == <<[k |-> key, v |-> val]>> \o c

\* LruCache::put: replaces the value of a present key; otherwise removes the
\* least recently used entry when the cache is full, then adds the entry.
LruPut(c, capacity, key, val) ==
    IF Contains(c, key)
    THEN <<[k |-> key, v |-> val]>> \o Without(c, IndexOf(c, key))
    ELSE IF Len(c) = capacity
    THEN <<[k |-> key, v |-> val]>> \o SubSeq(c, 1, Len(c) - 1)
    ELSE <<[k |-> key, v |-> val]>> \o c

\* ------------------------------------------------------------- state
VARIABLES
    cache,      \* the LruCache behind the mutex, most recently used first
    locked,     \* whether the tokio Mutex is held
    pc,         \* per task: where it stands in generate / retrieve_image
    url,        \* per task: the percent-decoded url
    tok,        \* per task: the spec token of the path
    upstream,   \* per task: status of the upstream response, 0 before it
    seen,       \* per task: the cache as it was when the task took the lock
    lookup,     \* per task: what g.get found when the lock was taken
    fetches,    \* per task: upstream fetches issued by this call
    last,       \* the request answered most recently, with its answer
    log,        \* keys in the order they were hit or inserted
    lastFetch,  \* per url: how the last retrieval of it ended
    started,    \* requests accepted so far
    hashed,     \* per task: the cache key hashed from its url
    origin      \* per key: the url whose fetch returned the bytes stored under it

vars == <<cache, locked, pc, url, tok, upstream, seen, lookup, fetches, last,
          log, lastFetch, started, hashed, origin>>

NoLast == [url |-> <<>>, tok |-> <<>>, lookup |-> "none", fetches |-> 0,
           upstream |-> 0, data |-> NoData, status |-> 0, ctype |-> "", body |-> <<>>,
           stages |-> <<>>, from |-> <<>>]

\* Faulty variant: the key is hashed from the url segment as it was received.
KeyForRaw(seg) == HashFrom(0, seg)

\* Lines 56 and 82-84: the key is the hash of the percent-decoded url.
KeyFor(seg) == Fingerprint(PercentDecode(seg))

KeyOf(r) == hashed[r]

\* Tasks inside the region guarded by g (lines 86-101).
InRegion == { r \in Reqs : pc[r] \in {"locked", "fetching", "reading"} }

\* Tasks with an upstream fetch outstanding (lines 94-95).
Fetching == { r \in Reqs : pc[r] \in {"fetching", "reading"} }

Init ==
    /\ cache = <<>>
    /\ locked = FALSE
    /\ pc = [r \in Reqs |-> "idle"]
    /\ url = [r \in Reqs |-> <<>>]
    /\ tok = [r \in Reqs |-> <<>>]
    /\ upstream = [r \in Reqs |-> 0]
    /\ seen = [r \in Reqs |-> <<>>]
    /\ lookup = [r \in Reqs |-> "none"]
    /\ fetches = [r \in Reqs |-> 0]
    /\ last = NoLast
    /\ log = <<>>
    /\ lastFetch = [u \in Urls |-> "none"]
    /\ started = 0
    /\ hashed = [r \in Reqs |-> 0]
    /\ origin = [k \in 0..(HashSpace - 1) |-> <<>>]

\* ------------------------------------------------------------- generate's answers
\* Line 60 and line 64: map_err(|_| StatusCode::BAD_REQUEST).
BadRequest == [status |-> 400, ctype |-> "", body |-> <<>>]

\* Faulty variant: undecodable bytes answered as a client error.
RenderBadRequest(bytes, t) ==
    IF ~IsImage(bytes)
    THEN [status |-> 400, ctype |-> "", body |-> <<>>]
    ELSE [status |-> 200, ctype |-> "image/png",
          body |-> Encode(ApplyFrom(PhotonDecode(bytes), DecodeSpec(t)))]

\* Lines 67-78: 500 when the bytes are no image; otherwise apply, whose
\* result is not looked at, then generate(Png) and 200 with the png header.
Render(bytes, t) ==
    IF ~IsImage(bytes)
    THEN [status |-> 500, ctype |-> "", body |-> <<>>]
    ELSE [status |-> 200, ctype |-> "image/png",
          body |-> Encode(ApplyFrom(PhotonDecode(bytes), DecodeSpec(t)))]

\* One stage of generate that was executed, and whether it succeeded.
Stage(name, ok) == [s |-> name, ok |-> ok]

\* Lines 56-60: the url segment is percent-decoded first, which cannot fail;
\* then the spec token is parsed.
Parsed(t) == <<Stage("ParsingUrl", TRUE), Stage("ParsingSpec", SpecValid(t))>>

\* Lines 62-64: retrieve_image is awaited after both have been parsed.
Resolved(t, ok) == Append(Parsed(t), Stage("Resolving", ok))

\* Lines 67-72: the stages Render goes through. The outcome of apply is not
\* looked at, so generate(Png) follows it in every case.
RenderStages(bytes, t) ==
    IF ~IsImage(bytes)
    THEN <<Stage("Decoding", FALSE)>>
    ELSE <<Stage("Decoding", TRUE),
           Stage("Transforming", ~SomeOpFails(DecodeSpec(t))),
           Stage("Encoding", TRUE)>>

\* The answered request: what the task saw, the stages it executed, and the
\* answer a.
Answer(u, t, lk, n, st, bytes, src, stg, a) ==
    [url |-> u, tok |-> t, lookup |-> lk, fetches |-> n, upstream |-> st,
     data |-> bytes, status |-> a.status, ctype |-> a.ctype, body |-> a.body,
     stages |-> stg, from |-> src]

\* How the retrieval of u ended, for the urls that share its fingerprint.
Retrieved(u) ==
    [w \in Urls |->
        IF w = u THEN "none"
        ELSE IF Fingerprint(w) = Fingerprint(u) /\ lastFetch[w] # "none" THEN "shadowed"
        ELSE lastFetch[w]]

\* Line 94 fetched u and line 96 stored what it returned under key, in the
\* cache that is now c; keys that left the cache are forgotten.
Fetched(o, c, key, u) ==
    [k \in DOMAIN o |-> IF k = key THEN u
                        ELSE IF Contains(c, k) THEN o[k]
                        ELSE <<>>]

\* A task that returned: its slot serves the next connection.
Idle(r) ==
    /\ pc' = [pc EXCEPT ![r] = "idle"]
    /\ url' = [url EXCEPT ![r] = <<>>]
    /\ tok' = [tok EXCEPT ![r] = <<>>]
    /\ upstream' = [upstream EXCEPT ![r] = 0]
    /\ seen' = [seen EXCEPT ![r] = <<>>]
    /\ lookup' = [lookup EXCEPT ![r] = "none"]
    /\ fetches' = [fetches EXCEPT ![r] = 0]
    /\ hashed' = [hashed EXCEPT ![r] = 0]

\* ------------------------------------------------------------- actions
\* Faulty variant: the spec is not looked at before the image is retrieved.
GenerateInvalidLocks(r, seg, t, limit) ==
    /\ pc[r] = "idle"
    /\ started < limit
    /\ ~SpecValid(t)
    /\ started' = started + 1
    /\ url' = [url EXCEPT ![r] = PercentDecode(seg)]
    /\ tok' = [tok EXCEPT ![r] = t]
    /\ hashed' = [hashed EXCEPT ![r] = KeyFor(seg)]
    /\ pc' = [pc EXCEPT ![r] = "lock"]
    /\ UNCHANGED <<cache, locked, upstream, seen, lookup, fetches, last, log,
                   lastFetch, origin>>

\* Lines 52-60, spec does not parse: 400.
GenerateInvalid(r, seg, t, limit) ==
    /\ pc[r] = "idle"
    /\ started < limit
    /\ ~SpecValid(t)
    /\ started' = started + 1
    /\ last' = Answer(PercentDecode(seg), t, "none", 0, 0, NoData, <<>>,
                      Parsed(t), BadRequest)
    /\ UNCHANGED <<cache, locked, pc, url, tok, upstream, seen, lookup, fetches,
                   log, lastFetch, hashed, origin>>

\* Lines 52-62 and 82-86: decode the url, parse the spec, hash the url and
\* reach cache.lock().
Generate(r, seg, t, limit) ==
    /\ pc[r] = "idle"
    /\ started < limit
    /\ SpecValid(t)
    /\ started' = started + 1
    /\ url' = [url EXCEPT ![r] = PercentDecode(seg)]
    /\ tok' = [tok EXCEPT ![r] = t]
    /\ hashed' = [hashed EXCEPT ![r] = KeyFor(seg)]
    /\ pc' = [pc EXCEPT ![r] = "lock"]
    /\ UNCHANGED <<cache, locked, upstream, seen, lookup, fetches, last, log,
                   lastFetch, origin>>

\* Faulty variant: a lock that is granted while it is held.
LockAlwaysFree == TRUE

\* Mutex::lock grants the lock only when nobody holds it.
LockFree == ~locked

\* Line 86: cache.lock().await completes.
Lock(r) ==
    /\ pc[r] = "lock"
    /\ LockFree
    /\ locked' = TRUE
    /\ seen' = [seen EXCEPT ![r] = cache]
    /\ pc' = [pc EXCEPT ![r] = "locked"]
    /\ UNCHANGED <<cache, url, tok, upstream, lookup, fetches, last, log,
                   lastFetch, started, hashed, origin>>

\* Faulty variant: the guard is dropped before the fetch is awaited.
GuardDroppedBeforeFetch == FALSE

\* The guard g lives until retrieve_image returns, so the mutex stays held
\* while the miss branch awaits the upstream server.
GuardHeldOverFetch == TRUE

\* Lines 87-91 and 99-101, then 64-78: g.get finds the key; the stored bytes
\* are returned, the guard is dropped and the image is rendered.
GetHit(r) ==
    /\ pc[r] = "locked"
    /\ LruFind(cache, KeyOf(r)) # NoData
    /\ cache' = LruGet(cache, KeyOf(r))
    /\ locked' = FALSE
    /\ last' = Answer(url[r], tok[r],
                      IF Contains(cache, KeyOf(r)) THEN "hit" ELSE "miss",
                      fetches[r], upstream[r], LruFind(cache, KeyOf(r)),
                      origin[KeyOf(r)],
                      Resolved(tok[r], TRUE)
                         \o RenderStages(LruFind(cache, KeyOf(r)), tok[r]),
                      Render(LruFind(cache, KeyOf(r)), tok[r]))
    /\ log' = Append(log, KeyOf(r))
    /\ lastFetch' = Retrieved(url[r])
    /\ Idle(r)
    /\ UNCHANGED <<started, origin>>

\* Lines 87 and 92-94: g.get finds nothing; reqwest::get(url) is issued and
\* awaited with the guard alive.
GetMiss(r) ==
    /\ pc[r] = "locked"
    /\ LruFind(cache, KeyOf(r)) = NoData
    /\ lookup' = [lookup EXCEPT ![r] = IF Contains(cache, KeyOf(r)) THEN "hit" ELSE "miss"]
    /\ cache' = LruGet(cache, KeyOf(r))
    /\ fetches' = [fetches EXCEPT ![r] = @ + 1]
    /\ locked' = GuardHeldOverFetch
    /\ pc' = [pc EXCEPT ![r] = "fetching"]
    /\ UNCHANGED <<url, tok, upstream, seen, last, log, lastFetch, started,
                   hashed, origin>>

\* Faulty variant: the failure of the request is stored under the key.
RequestErrorCached(c, capacity, key) == LruPut(c, capacity, key, "txt")

\* The cache an early return through `?` on line 94 leaves behind.
AfterRequestError(c, capacity, key) == c

\* Faulty variant: the failure of the body is stored under the key.
BodyErrorCached(c, capacity, key) == LruPut(c, capacity, key, "txt")

\* The cache an early return through `?` on line 95 leaves behind.
AfterBodyError(c, capacity, key) == c

\* Faulty variant: the lock stays taken when the fetch fails.
LockedAfterErrorLeak == TRUE

\* Lines 94-95: `?` returns from retrieve_image, which drops the guard g and
\* so releases the mutex, as on the paths that reach line 101.
LockedAfterError == FALSE

\* Line 94, Err: the request fails in transport; `?` returns the error, the
\* guard is dropped, and generate maps the error to 400 (line 64).
RequestFails(r) ==
    /\ pc[r] = "fetching"
    /\ cache' = AfterRequestError(cache, Capacity, KeyOf(r))
    /\ locked' = LockedAfterError
    /\ last' = Answer(url[r], tok[r], lookup[r], fetches[r],
                      upstream[r], NoData, <<>>, Resolved(tok[r], FALSE), BadRequest)
    /\ lastFetch' = [lastFetch EXCEPT ![url[r]] = "failed"]
    /\ Idle(r)
    /\ UNCHANGED <<log, started, origin>>

\* Line 94, Ok: a response arrives, whatever its status; resp.bytes() is
\* awaited next.
ResponseArrives(r, st) ==
    /\ pc[r] = "fetching"
    /\ upstream' = [upstream EXCEPT ![r] = st]
    /\ pc' = [pc EXCEPT ![r] = "reading"]
    /\ UNCHANGED <<seen, cache, locked, url, tok, lookup, fetches, last, log,
                   lastFetch, started, hashed, origin>>

\* Line 95, Err: reading the body fails; as for line 94.
BodyFails(r) ==
    /\ pc[r] = "reading"
    /\ cache' = AfterBodyError(cache, Capacity, KeyOf(r))
    /\ locked' = LockedAfterError
    /\ last' = Answer(url[r], tok[r], lookup[r], fetches[r],
                      upstream[r], NoData, <<>>, Resolved(tok[r], FALSE), BadRequest)
    /\ lastFetch' = [lastFetch EXCEPT ![url[r]] = "failed"]
    /\ Idle(r)
    /\ UNCHANGED <<log, started, origin>>

\* Faulty variant: the cache keeps the rendered output of the request.
StoredRendered(bytes, t) == IF IsImage(bytes) THEN "rendered" ELSE bytes

\* Line 96: g.put(key, data.clone()) stores the body as it was read, before
\* generate has looked at it or at the spec.
Stored(bytes, t) == bytes

\* Faulty variant: only bytes that decode as an image are stored.
ImageCheckedBeforePut(c, capacity, key, bytes) ==
    IF IsImage(bytes) THEN LruPut(c, capacity, key, bytes) ELSE c

\* Lines 95-96: once the body is read it is put in the cache, inside
\* retrieve_image; generate tries to decode it only after that (line 67).
AfterBodyRead(c, capacity, key, bytes) == LruPut(c, capacity, key, bytes)

\* Lines 95-101, then 64-78: the body is read, stored under the key and
\* returned; the guard is dropped and the image is rendered.
BodyArrives(r, bytes) ==
    /\ pc[r] = "reading"
    /\ cache' = AfterBodyRead(cache, Capacity, KeyOf(r), Stored(bytes, tok[r]))
    /\ locked' = FALSE
    /\ origin' = Fetched(origin, cache', KeyOf(r), url[r])
    /\ last' = Answer(url[r], tok[r], lookup[r], fetches[r],
                      upstream[r], bytes, url[r],
                      Resolved(tok[r], TRUE) \o RenderStages(bytes, tok[r]),
                      Render(bytes, tok[r]))
    /\ log' = Append(log, KeyOf(r))
    /\ lastFetch' = Retrieved(url[r])
    /\ Idle(r)
    /\ UNCHANGED <<started>>

Next ==
    \/ \E r \in Reqs, seg \in Segments, t \in Tokens : GenerateInvalid(r, seg, t, MaxRequests)
    \/ \E r \in Reqs, seg \in Segments, t \in Tokens : Generate(r, seg, t, MaxRequests)
    \/ \E r \in Reqs : Lock(r)
    \/ \E r \in Reqs : GetHit(r)
    \/ \E r \in Reqs : GetMiss(r)
    \/ \E r \in Reqs : RequestFails(r)
    \/ \E r \in Reqs, st \in UpstreamStatuses : ResponseArrives(r, st)
    \/ \E r \in Reqs : BodyFails(r)
    \/ \E r \in Reqs, bytes \in Bodies : BodyArrives(r, bytes)

Spec == Init /\ [][Next]_vars

\* tokio's Mutex hands the lock to waiters in the order they asked, so a task
\* waiting at line 86 gets the lock if it is released again and again; the
\* runtime keeps polling a task that can go on; and every upstream fetch is
\* taken to return, with a response or an error (lines 94-95).
Fairness ==
    \A r \in Reqs :
        /\ SF_vars(Lock(r))
        /\ WF_vars(GetHit(r) \/ GetMiss(r))
        /\ WF_vars(RequestFails(r) \/ \E st \in UpstreamStatuses : ResponseArrives(r, st))
        /\ WF_vars(BodyFails(r) \/ \E bytes \in Bodies : BodyArrives(r, bytes))

\* The server with that scheduler, over the first MaxLive requests.
NextLive ==
    \/ \E r \in Reqs, seg \in Segments, t \in Tokens : GenerateInvalid(r, seg, t, MaxLive)
    \/ \E r \in Reqs, seg \in Segments, t \in Tokens : Generate(r, seg, t, MaxLive)
    \/ \E r \in Reqs : Lock(r)
    \/ \E r \in Reqs : GetHit(r)
    \/ \E r \in Reqs : GetMiss(r)
    \/ \E r \in Reqs : RequestFails(r)
    \/ \E r \in Reqs, st \in UpstreamStatuses : ResponseArrives(r, st)
    \/ \E r \in Reqs : BodyFails(r)
    \/ \E r \in Reqs, bytes \in Bodies : BodyArrives(r, bytes)

SpecFair == Init /\ [][NextLive]_vars /\ Fairness

\* The same server with one connection open at a time.
NextSerial ==
    \/ \E seg \in Segments, t \in Tokens : GenerateInvalid(1, seg, t, MaxSerial)
    \/ \E seg \in Segments, t \in Tokens : Generate(1, seg, t, MaxSerial)
    \/ Lock(1)
    \/ GetHit(1)
    \/ GetMiss(1)
    \/ RequestFails(1)
    \/ \E st \in UpstreamStatuses : ResponseArrives(1, st)
    \/ BodyFails(1)
    \/ \E bytes \in Bodies : BodyArrives(1, bytes)

SpecSerial == Init /\ [][NextSerial]_vars

TypeOK ==
    /\ locked \in BOOLEAN
    /\ \A r \in Reqs : pc[r] \in {"idle", "lock", "locked", "fetching", "reading"}
    /\ started \in 0..MaxSerial

\* ------------------------------------------------------------- properties
\* Keys that were hit or inserted at least once.
Touched == { log[i] : i \in 1..Len(log) }

\* C1: in every reachable state the cache holds at most Capacity entries.
C1_CacheBounded == Len(cache) <= Capacity

\* More keys were inserted than fit, and the cache is full.
C1_Witness == Cardinality(Touched) > Capacity /\ Len(cache) = Capacity

\* C2: a call that finds its key when it holds the lock returns the stored
\* bytes and issues no upstream fetch; a call that does not find it issues
\* exactly one fetch and never a second one.
C2_HitNoFetchMissOneFetch ==
    [][\A r \in Reqs :
        /\ (pc[r] = "locked" /\ pc'[r] # "locked" /\ Contains(cache, KeyOf(r)))
              => /\ pc'[r] = "idle"
                 /\ last'.lookup = "hit"
                 /\ last'.data = ValueOf(cache, KeyOf(r))
                 /\ last'.fetches = 0
        /\ (pc[r] = "locked" /\ pc'[r] # "locked" /\ ~Contains(cache, KeyOf(r)))
              => /\ pc'[r] = "fetching"
                 /\ fetches'[r] = 1
        /\ (pc[r] \in {"fetching", "reading"} /\ pc'[r] \in {"fetching", "reading"})
              => fetches'[r] = fetches[r]
        /\ (pc[r] \in {"fetching", "reading"} /\ pc'[r] = "idle")
              => last'.lookup = "miss" /\ last'.fetches = 1
    ]_vars

\* A call was answered from the cache while another call's fetch is out.
C2_Witness ==
    /\ last.lookup = "hit"
    /\ last.fetches = 0
    /\ \E r \in Reqs : pc[r] = "reading" /\ fetches[r] = 1

\* C3: a failed fetch, in the request or in the reading of the body, leaves
\* the cache as it was when the call took the lock, without an entry for the key, and the call ends in
\* the error.
C3_FailedFetchLeavesCache ==
    [][\A r \in Reqs :
        (pc[r] \in {"fetching", "reading"} /\ pc'[r] = "idle" /\ last'.data = NoData)
            => /\ cache' = seen[r]
               /\ ~Contains(cache', KeyOf(r))
               /\ last'.status = 400
    ]_vars

\* The reading of a body has failed while the cache held an entry.
C3_Witness ==
    /\ last.lookup = "miss"
    /\ last.data = NoData
    /\ last.upstream # 0
    /\ last.status = 400
    /\ Len(cache) > 0

\* C4: an upstream response with a non-success status is a fetch error: the
\* request is answered 400 and the cache stays as it was.
C4_NonSuccessIsFetchError ==
    [][\A r \in Reqs :
        (pc[r] = "reading" /\ upstream[r] # 200 /\ pc'[r] = "idle")
            => /\ last'.status = 400
               /\ cache' = seen[r]
    ]_vars

\* Position in the log of the last hit or insert of key k, 0 when there is none.
LastUse(k) ==
    IF k \in Touched THEN CHOOSE i \in 1..Len(log) :
                             /\ log[i] = k
                             /\ \A j \in (i + 1)..Len(log) : log[j] # k
    ELSE 0

\* C5: hits and inserts refresh recency; an insert into a cache that is not
\* full removes nothing, an insert into a full cache removes exactly the
\* entry whose last hit or insert is the oldest; a hit removes nothing.
\* With capacity 2, the accesses A, B, A, C leave A and C.
C5_EvictsLeastRecentlyUsed ==
    /\ [][(Len(log') = Len(log) + 1) =>
            LET k == log'[Len(log')] IN
            IF last'.lookup = "hit" \/ Len(cache) < Capacity
            THEN CacheKeys(cache') = CacheKeys(cache) \cup {k}
            ELSE \E victim \in CacheKeys(cache) :
                    /\ CacheKeys(cache') = (CacheKeys(cache) \ {victim}) \cup {k}
                    /\ victim # k
                    /\ \A o \in CacheKeys(cache) : LastUse(victim) <= LastUse(o)
         ]_vars
    /\ []((/\ Capacity = 2
           /\ Len(log) = 4
           /\ log[1] = log[3]
           /\ Cardinality({log[1], log[2], log[4]}) = 3)
          => CacheKeys(cache) = {log[1], log[4]})

\* The accesses A, B, A, C were made and A and C are what the cache holds.
C5_Witness ==
    /\ Capacity = 2
    /\ Len(log) = 4
    /\ log[1] = log[3]
    /\ Cardinality({log[1], log[2], log[4]}) = 3
    /\ CacheKeys(cache) = {log[1], log[4]}

\* C6: an answer is 400 when the spec does not parse, 400 when the fetch
\* failed, 500 when the bytes retrieved are no image, and otherwise 200 with
\* content-type image/png and the png encoding of the retrieved image.
C6_StatusByFirstFailure ==
    last.status # 0 =>
        /\ last.status \in {200, 400, 500}
        /\ ~SpecValid(last.tok) => last.status = 400
        /\ (SpecValid(last.tok) /\ last.data = NoData) => last.status = 400
        /\ (SpecValid(last.tok) /\ last.data # NoData /\ ~IsImage(last.data))
              => last.status = 500
        /\ (SpecValid(last.tok) /\ last.data # NoData /\ IsImage(last.data))
              => /\ last.status = 200
                 /\ last.ctype = "image/png"
                 /\ Len(last.body) = 3
                 /\ last.body[1] = "png"
                 /\ last.body[2] = last.data
        /\ last.status # 200 => last.ctype = "" /\ last.body = <<>>

\* Cached bytes that are no image were answered with 500.
C6_Witness == last.status = 500 /\ last.lookup = "hit"

\* C7: when an operation of the spec fails on the decoded image, the request
\* is answered with a server error and no image.
C7_FailedOperationAborts ==
    (/\ last.status # 0
     /\ SpecValid(last.tok)
     /\ last.data # NoData
     /\ IsImage(last.data)
     /\ SomeOpFails(DecodeSpec(last.tok)))
        => last.status = 500 /\ last.body = <<>>

\* C8: at most one task is inside the locked region, which spans the awaited
\* fetch, so at most one fetch is in flight; and the cache is the one the
\* lock holder saw when it took the lock: no other task has written it.
C8_MutualExclusion ==
    /\ Cardinality(InRegion) <= 1
    /\ Cardinality(Fetching) <= 1
    /\ Fetching \subseteq InRegion
    /\ \A r \in InRegion : cache = seen[r]

\* A fetch is outstanding while another task waits for the lock.
C8_Witness ==
    \E r1, r2 \in Reqs : pc[r1] = "reading" /\ pc[r2] = "lock" /\ Len(cache) > 0

\* C9: no two fetches for one key are in flight, and no fetch is in flight
\* for a key the cache holds.
C9_OneFetchPerKey ==
    /\ \A r1, r2 \in Fetching : r1 # r2 => KeyOf(r1) # KeyOf(r2)
    /\ \A r \in Fetching : ~Contains(cache, KeyOf(r))

\* Two requests race on one uncached key: one fetches, the other waits.
C9_Witness ==
    \E r1, r2 \in Reqs :
        /\ pc[r1] = "fetching"
        /\ pc[r2] = "lock"
        /\ KeyOf(r1) = KeyOf(r2)

\* C10 as stated: a url whose last retrieval failed, with no successful
\* request for that url since, has no entry for its key.
C10_FailedUrlHasNoEntry ==
    \A u \in Urls : lastFetch[u] # "none" => ~Contains(cache, Fingerprint(u))

\* C10: a url whose last retrieval failed, with no successful request since
\* for it or for a url of the same fingerprint, has no entry for its key.
C10_FailedKeyHasNoEntry ==
    \A u \in Urls : lastFetch[u] = "failed" => ~Contains(cache, Fingerprint(u))

\* A url whose last retrieval failed is being fetched again and has answered.
C10_Witness ==
    \E r \in Reqs : pc[r] = "reading" /\ lastFetch[url[r]] = "failed"

\* C11: the cache never holds two entries for one key, a step never changes
\* the bytes stored under a key that stays in the cache, and a hit returns
\* the bytes that are stored.
C11_StoredBytesNeverOverwritten ==
    [][/\ Cardinality(CacheKeys(cache')) = Len(cache')
       /\ \A k \in CacheKeys(cache) \cap CacheKeys(cache') :
             ValueOf(cache', k) = ValueOf(cache, k)
       /\ \A r \in Reqs :
             (pc[r] = "locked" /\ pc'[r] = "idle")
                => /\ Contains(cache', KeyOf(r))
                   /\ last'.data = ValueOf(cache', KeyOf(r))
    ]_vars

\* A stored entry was read by a hit while another key's fetch is out.
C11_Witness ==
    /\ last.lookup = "hit"
    /\ Contains(cache, Fingerprint(last.url))
    /\ ValueOf(cache, Fingerprint(last.url)) = last.data
    /\ \E r \in Reqs : pc[r] = "reading" /\ KeyOf(r) # Fingerprint(last.url)

\* C12: the stages of an answered request are an initial part of ParsingSpec,
\* ParsingUrl, Resolving, Decoding, Transforming, Encoding, each once and in
\* that order; only the last stage executed can have failed; and the request
\* is Done exactly when all six were executed and none failed.
C12_StagesInOrderFailFast ==
    LET order == <<"ParsingSpec", "ParsingUrl", "Resolving", "Decoding",
                   "Transforming", "Encoding">>
        tr == last.stages
    IN  last.status # 0 =>
          /\ Len(tr) <= Len(order)
          /\ \A i \in 1..Len(tr) : tr[i].s = order[i]
          /\ \A i \in 1..(Len(tr) - 1) : tr[i].ok
          /\ (last.status = 200)
                <=> (Len(tr) = Len(order) /\ \A i \in 1..Len(tr) : tr[i].ok)

\* C13: the key of every request in progress is the fingerprint of its
\* percent-decoded url; every cache entry under key k holds bytes fetched from
\* a url whose fingerprint is k; the bytes a request is served were fetched
\* from a url with the fingerprint of its own url, hence from its own url
\* when no other url shares that fingerprint.
C13_KeyIsFingerprintOfDecodedUrl ==
    /\ \A r \in Reqs : pc[r] # "idle" => KeyOf(r) = Fingerprint(url[r])
    /\ \A k \in CacheKeys(cache) :
          origin[k] \in Urls /\ Fingerprint(origin[k]) = k
    /\ last.data # NoData =>
          /\ last.from \in Urls
          /\ Fingerprint(last.from) = Fingerprint(last.url)
          /\ (\A w \in Urls : Fingerprint(w) = Fingerprint(last.url) => w = last.url)
                => last.from = last.url

\* A request was served, from the cache, bytes that an earlier request for
\* the same url had fetched, while the entry of another url is cached too.
C13_Witness ==
    /\ last.lookup = "hit"
    /\ last.fetches = 0
    /\ last.from = last.url
    /\ \A w \in Urls : Fingerprint(w) = Fingerprint(last.url) => w = last.url
    /\ Len(cache) = 2

\* C14: every cached value is a body as an upstream server sent it; after a
\* request was served, the most recent entry is its url's key with exactly
\* the bytes it was served, whatever its spec; and a request that holds the
\* lock right after a request for the same url was served finds those bytes,
\* whatever the two specs are.
C14_CacheHoldsRawBytesWhateverSpec ==
    /\ \A i \in 1..Len(cache) : cache[i].v \in Bodies
    /\ last.data # NoData =>
          /\ cache # <<>>
          /\ cache[1] = [k |-> Fingerprint(last.url), v |-> last.data]
    /\ \A r \in Reqs :
          (pc[r] = "locked" /\ last.data # NoData /\ last.url = url[r])
             => LruFind(cache, KeyOf(r)) = last.data

\* A request holds the lock after a request for the same url with another
\* operation list fetched and stored an image.
C14_Witness ==
    \E r \in Reqs :
        /\ pc[r] = "locked"
        /\ last.url = url[r]
        /\ last.lookup = "miss"
        /\ last.status = 200
        /\ last.tok # tok[r]
        /\ cache[1].v = "png"

\* C15: a request whose spec token does not parse is answered 400 in the step
\* that accepts it: its task never leaves idle, so it never waits for or
\* takes the lock and fetches nothing, and the cache (entries, size, order),
\* the lock and every other task are as they were; no task past idle carries
\* a token that does not parse.
C15_InvalidSpecTouchesNothing ==
    [][/\ \A r \in Reqs : pc'[r] # "idle" => SpecValid(tok'[r])
       /\ (started' # started /\ pc' = pc) =>
             /\ ~SpecValid(last'.tok)
             /\ last'.status = 400
             /\ last'.body = <<>>
             /\ last'.lookup = "none"
             /\ last'.fetches = 0
             /\ last'.data = NoData
             /\ \A i \in 1..Len(last'.stages) : last'.stages[i].s # "Resolving"
             /\ cache' = cache
             /\ locked' = locked
             /\ log' = log
             /\ UNCHANGED <<url, tok, hashed, seen, lookup, fetches, upstream>>
    ]_vars

\* A request with an unparsable spec was answered while another task held the
\* lock with a fetch outstanding and the cache was not empty.
C15_Witness ==
    /\ ~SpecValid(last.tok)
    /\ last.status = 400
    /\ last.lookup = "none"
    /\ locked
    /\ Fetching # {}
    /\ cache # <<>>

\* C16: a request answered 500 was given bytes that are no image, and those
\* bytes are the most recent cache entry, under its url's key; a request that
\* fetched such bytes is answered 500; a request that holds the lock while
\* such bytes are stored under its key cannot miss and will be answered 500;
\* and a hit on such bytes is answered 500 without a fetch.
C16_UndecodableBytesStayCached ==
    /\ last.status = 500 =>
          /\ last.data # NoData /\ ~IsImage(last.data)
          /\ cache # <<>>
          /\ cache[1] = [k |-> Fingerprint(last.url), v |-> last.data]
    /\ (last.data # NoData /\ ~IsImage(last.data)) => last.status = 500
    /\ \A r \in Reqs :
          (/\ pc[r] = "locked"
           /\ Contains(cache, KeyOf(r))
           /\ ~IsImage(ValueOf(cache, KeyOf(r))))
             => /\ ENABLED GetHit(r)
                /\ ~ENABLED GetMiss(r)
                /\ Render(LruFind(cache, KeyOf(r)), tok[r]).status = 500
    /\ (last.lookup = "hit" /\ ~IsImage(last.data)) =>
          last.status = 500 /\ last.fetches = 0

\* Bytes that are no image were fetched and stored by one request, and a
\* later request for the same url was answered 500 from the cache.
C16_Witness ==
    /\ last.status = 500
    /\ last.lookup = "hit"
    /\ last.fetches = 0
    /\ last.from = last.url
    /\ cache[1].v = "txt"

\* C17: with fair lock acquisition and fetches that return, every request
\* that was accepted is eventually answered and its task is idle again; and
\* as long as a fetch is outstanding, no task waiting for the lock can take
\* it.
C17_EveryRequestEnds ==
    /\ \A r \in Reqs : (pc[r] # "idle") ~> (pc[r] = "idle")
    /\ [](\A r \in Reqs :
             (pc[r] = "lock" /\ Fetching # {}) => ~ENABLED Lock(r))

\* A task waits for the lock while another task holds it with the body of
\* its fetch outstanding.
C17_Witness ==
    /\ \E r \in Reqs : pc[r] = "lock"
    /\ \E r \in Reqs : pc[r] = "reading"
    /\ locked

====
